---- MODULE Spec2Model ----
(***************************************************************************)
(* Model of the monthly-expense API (src/app.py, src/schemas/despesa.py,    *)
(* src/model/despesa.py): the despesa table, the pydantic validation of     *)
(* the create and update forms, and the five request handlers.              *)
(*                                                                          *)
(* An optional value (Python None or a value) is a sequence of length 0 or  *)
(* 1: Nil is None, Some(v) is v.  A text field is a sequence of characters. *)
(***************************************************************************)
EXTENDS Integers, Sequences, FiniteSets, TLC

\* ------------------------------------------------------------------ bounds

\* ids the store hands out: 1..MaxId
MaxId == 2
\* handler invocations explored (each one opens a Session)
MaxSessions == 3

\* ----------------------------------------------------------------- options

Nil == <<>>
Some(v) == <<v>>
Get(o) == o[1]

\* ------------------------------------------------- model/despesa.py: enum

\* TipoDespesa(value): the member whose value is `value`; Nil stands for the
\* ValueError of a value that no member has.
TipoDespesa(value) ==
    CASE value = "CRÉDITO FIXO" -> Some("CREDITO_FIXO")
      [] value = "CRÉDITO PARCELADO" -> Some("CREDITO_PARCELADO")
      [] value = "PIX" -> Some("PIX")
      [] value = "BOLETO" -> Some("BOLETO")
      [] OTHER -> Nil

\* member.value
TipoValue(member) ==
    CASE member = "CREDITO_FIXO" -> "CRÉDITO FIXO"
      [] member = "CREDITO_PARCELADO" -> "CRÉDITO PARCELADO"
      [] member = "PIX" -> "PIX"
      [] member = "BOLETO" -> "BOLETO"

\* ------------------------------------------------ text to integer: int(v)

Digits == {"0", "1", "2", "3", "4", "5", "6", "7", "8", "9"}

DigitVal(c) ==
    CASE c = "0" -> 0 [] c = "1" -> 1 [] c = "2" -> 2 [] c = "3" -> 3
      [] c = "4" -> 4 [] c = "5" -> 5 [] c = "6" -> 6 [] c = "7" -> 7
      [] c = "8" -> 8 [] c = "9" -> 9

RECURSIVE DigitsValue(_, _)
\* the value of the digit string s, continuing from the accumulator acc
DigitsValue(s, acc) ==
    IF s = <<>> THEN acc
    ELSE DigitsValue(Tail(s), acc * 10 + DigitVal(Head(s)))

AllDigits(s) == s # <<>> /\ \A i \in 1..Len(s) : s[i] \in Digits

\* Python's int(text): an optional sign and at least one digit; Nil stands
\* for ValueError.
ParseInt(s) ==
    IF s # <<>> /\ Head(s) = "-"
    THEN IF AllDigits(Tail(s)) THEN Some(0 - DigitsValue(Tail(s), 0)) ELSE Nil
    ELSE IF s # <<>> /\ Head(s) = "+"
    THEN IF AllDigits(Tail(s)) THEN Some(DigitsValue(Tail(s), 0)) ELSE Nil
    ELSE IF AllDigits(s) THEN Some(DigitsValue(s, 0)) ELSE Nil

\* --------------------------------------------- schemas/despesa.py: fields

\* A raw value of the parcelas field: text as the form carries it, or an
\* integer as a direct caller of the schema may pass it.
Str(s) == [kind |-> "str", s |-> s, n |-> 0]
Int_(n) == [kind |-> "int", s |-> <<>>, n |-> n]

\* The result of a validator: ok and the value, or a ValueError.
Ok(v) == [ok |-> TRUE, v |-> v]
Err == [ok |-> FALSE, v |-> Nil]

tipos_validos == {"CRÉDITO FIXO", "CRÉDITO PARCELADO", "PIX", "BOLETO"}

\* DespesaSchema.validate_tipo (tipo is required on create)
validate_tipo(v) ==
    IF v = Nil THEN Err
    ELSE IF Get(v) \notin tipos_validos THEN Err
    ELSE Ok(v)

\* DespesaAtualizaSchema.validate_tipo (tipo is optional on update)
validate_tipo_atualiza(v) ==
    IF v # Nil /\ Get(v) \notin tipos_validos THEN Err
    ELSE Ok(v)

\* validate_parcelas (pre=True), the same body in both schemas: None, "null"
\* and "" become None; text is returned as int(text) with no sign check; an
\* integer must be positive.
validate_parcelas(v) ==
    IF v = Nil \/ v = Some(Str(<<"n", "u", "l", "l">>)) \/ v = Some(Str(<<>>))
    THEN Ok(Nil)
    ELSE IF Get(v).kind = "str"
    THEN IF ParseInt(Get(v).s) = Nil THEN Err ELSE Ok(ParseInt(Get(v).s))
    ELSE IF Get(v).n <= 0 THEN Err ELSE Ok(Some(Get(v).n))

\* a validate_valor that checks nothing
validate_valor_none(v) == Ok(v)

\* validate_valor: valor is required on create, optional on update; the
\* same comparison in both schemas
validate_valor(v) ==
    IF v # Nil /\ Get(v) <= 0 THEN Err ELSE Ok(v)

\* validate_dia_vencimento, likewise
validate_dia_vencimento(v) ==
    IF v # Nil /\ (Get(v) < 1 \/ Get(v) > 31) THEN Err ELSE Ok(v)

\* DespesaSchema: the validated create command, or Err.  paga defaults to
\* False.
DespesaSchema(f) ==
    IF /\ validate_tipo(f.tipo).ok
       /\ f.titulo # Nil
       /\ f.valor # Nil /\ validate_valor(f.valor).ok
       /\ f.dia_vencimento # Nil /\ validate_dia_vencimento(f.dia_vencimento).ok
       /\ validate_parcelas(f.parcelas).ok
    THEN Ok([id |-> Nil,
             tipo |-> f.tipo,
             titulo |-> f.titulo,
             valor |-> f.valor,
             dia_vencimento |-> f.dia_vencimento,
             parcelas |-> validate_parcelas(f.parcelas).v,
             paga |-> IF f.paga = Nil THEN Some(FALSE) ELSE f.paga])
    ELSE Err

\* DespesaAtualizaSchema: the validated update command, or Err.  Only id is
\* required.
DespesaAtualizaSchema(f) ==
    IF /\ f.id # Nil
       /\ validate_tipo_atualiza(f.tipo).ok
       /\ validate_valor(f.valor).ok
       /\ validate_dia_vencimento(f.dia_vencimento).ok
       /\ validate_parcelas(f.parcelas).ok
    THEN Ok([f EXCEPT !.parcelas = validate_parcelas(f.parcelas).v])
    ELSE Err

\* DespesaBuscaSchema: id is required
DespesaBuscaSchema(f) == IF f.id # Nil THEN Ok(f) ELSE Err

\* ------------------------------------------------------------------ state

VARIABLES
    despesas,      \* the despesa table: id -> row, for the ids stored
    nextId,        \* the store's next primary key
    issued,        \* history: the ids add_despesa has answered with so far
    openSessions,  \* Sessions opened by handlers and not closed
    request,       \* the request in flight: its route and form
    response,      \* the answer to the request in flight: status and id
    antes          \* history: the row update_despesa loaded, before its changes

vars == <<despesas, nextId, issued, openSessions, request, response, antes>>

Ids == 1..MaxId

NoForm ==
    [id |-> Nil, tipo |-> Nil, titulo |-> Nil, valor |-> Nil,
     dia_vencimento |-> Nil, parcelas |-> Nil, paga |-> Nil]

NoRequest == [op |-> "none", form |-> NoForm]
NoResponse == [status |-> "none", id |-> Nil]
Response(status, id) == [status |-> status, id |-> id]

\* ----------------------------------------------------------- request forms

\* raw values of the parcelas field
ParcelasForms ==
    {Nil, Some(Str(<<>>)), Some(Str(<<"n", "u", "l", "l">>)),
     Some(Str(<<"0">>)), Some(Str(<<"-", "3">>)), Some(Str(<<"1">>)),
     Some(Str(<<"2">>)), Some(Str(<<"x">>)), Some(Int_(0)), Some(Int_(2))}

\* the raw values of parcelas that are crossed with the other fields
ParcelasCommon == {Nil, Some(Str(<<"2">>))}

PagaForms == {Nil, Some(TRUE), Some(FALSE)}

ValidForm == [NoForm EXCEPT !.tipo = Some("CRÉDITO PARCELADO"), !.titulo = Some("A"),
                            !.valor = Some(10), !.dia_vencimento = Some(10)]

\* Forms of POST /despesa: a valid form with every raw parcelas; with every
\* tipo, common parcelas and paga; with every valor; with every dia_vencimento.
CreateForms ==
    {[ValidForm EXCEPT !.parcelas = p] : p \in ParcelasForms}
    \cup
    {[ValidForm EXCEPT !.tipo = Some(t), !.parcelas = p, !.paga = g] :
        t \in {"CRÉDITO PARCELADO", "PIX", "OUTRO"}, p \in ParcelasCommon,
        g \in {Nil, Some(TRUE)}}
    \cup
    {[ValidForm EXCEPT !.valor = Some(v)] : v \in {0 - 5, 0}}
    \cup
    {[ValidForm EXCEPT !.dia_vencimento = Some(d)] : d \in {0, 32}}

\* Forms of PUT /despesa for an id: the id alone with every raw parcelas;
\* every tipo, common parcelas and paga; and titulo, valor and dia_vencimento
\* one at a time.
UpdateForms ==
    {[NoForm EXCEPT !.id = Some(i), !.parcelas = p] : i \in Ids, p \in ParcelasForms}
    \cup
    {[NoForm EXCEPT !.id = Some(i), !.tipo = t, !.parcelas = p, !.paga = g] :
        i \in Ids, t \in {Nil, Some("CRÉDITO PARCELADO"), Some("PIX")},
        p \in ParcelasCommon, g \in PagaForms}
    \cup
    {[NoForm EXCEPT !.id = Some(i), !.tipo = Some("OUTRO")] : i \in Ids}
    \cup
    {[NoForm EXCEPT !.id = Some(i), !.titulo = Some("B")] : i \in Ids}
    \cup
    {[NoForm EXCEPT !.id = Some(i), !.valor = Some(v)] : i \in Ids, v \in {0, 20}}
    \cup
    {[NoForm EXCEPT !.id = Some(i), !.dia_vencimento = Some(d)] : i \in Ids, d \in {20, 32}}

\* Forms of GET and DELETE /despesa
QueryForms == {[NoForm EXCEPT !.id = i] : i \in {Nil} \cup {Some(i) : i \in Ids}}

Requests ==
    {[op |-> "post", form |-> f] : f \in CreateForms}
    \cup {[op |-> "put", form |-> f] : f \in UpdateForms}
    \cup {[op |-> o, form |-> f] : o \in {"get", "delete"}, f \in QueryForms}
    \cup {[op |-> "list", form |-> NoForm]}

\* ------------------------------------------------------------------- store

\* a store that gives a new row one more than the largest id it holds
NewId_max ==
    IF DOMAIN despesas = {} THEN 1
    ELSE 1 + CHOOSE i \in DOMAIN despesas : \A j \in DOMAIN despesas : j <= i

\* The primary key the store gives a new row: the next value of a sequence
\* that never goes back.
NewId == nextId

\* session.query(Despesa).filter(Despesa.id == id).first()
Found(id) == id \in DOMAIN despesas

\* the table with row d added or replaced
Put(d) == [i \in DOMAIN despesas \cup {d.id} |-> IF i = d.id THEN d ELSE despesas[i]]

\* a delete without its filter: every row goes
Remove_todas(id) == <<>>

\* the table without the row id
Remove(id) == [i \in DOMAIN despesas \ {id} |-> despesas[i]]

Init ==
    /\ despesas = <<>>
    /\ nextId = 1
    /\ issued = {}
    /\ openSessions = 0
    /\ request = NoRequest
    /\ response = NoResponse
    /\ antes = Nil

\* ------------------------------------------------- app.py: update_despesa

\* the row a Despesa(...) built from a create command becomes, stored as id
NewDespesa(id, cmd) ==
    [id |-> id,
     tipo |-> Get(TipoDespesa(Get(cmd.tipo))),
     titulo |-> Get(cmd.titulo),
     valor |-> Get(cmd.valor),
     dia_vencimento |-> Get(cmd.dia_vencimento),
     parcelas |-> cmd.parcelas,
     paga |-> Get(cmd.paga)]

\* form.tipo: the new tipo, and parcelas cleared unless it is CRÉDITO PARCELADO
ApplyTipo(d, form) ==
    IF form.tipo # Nil
    THEN [d EXCEPT !.tipo = Get(TipoDespesa(Get(form.tipo))),
                   !.parcelas = IF Get(form.tipo) # "CRÉDITO PARCELADO"
                                THEN Nil ELSE @]
    ELSE d

\* form.titulo, form.valor, form.dia_vencimento: copied when given
ApplyCampos(d, form) ==
    [d EXCEPT !.titulo = IF form.titulo # Nil THEN Get(form.titulo) ELSE @,
              !.valor = IF form.valor # Nil THEN Get(form.valor) ELSE @,
              !.dia_vencimento =
                  IF form.dia_vencimento # Nil THEN Get(form.dia_vencimento) ELSE @]

\* an ApplyParcelas that copies form.parcelas whatever the tipo
ApplyParcelas_sempre(d, form) ==
    IF form.parcelas # Nil THEN [d EXCEPT !.parcelas = form.parcelas] ELSE d

\* an ApplyParcelas that looks at the form's tipo alone
ApplyParcelas_so_form(d, form) ==
    IF form.parcelas # Nil /\ form.tipo = Some("CRÉDITO PARCELADO")
    THEN [d EXCEPT !.parcelas = form.parcelas]
    ELSE d

\* form.parcelas: copied when given and the form's tipo or the row's tipo
\* (already updated) is CRÉDITO PARCELADO
ApplyParcelas(d, form) ==
    IF /\ form.parcelas # Nil
       /\ \/ form.tipo = Some("CRÉDITO PARCELADO")
          \/ TipoValue(d.tipo) = "CRÉDITO PARCELADO"
    THEN [d EXCEPT !.parcelas = form.parcelas]
    ELSE d

\* a PagaParcela that does not look at the stored paga
PagaParcela_sempre(d, form) ==
    /\ Get(form.paga)
    /\ TipoValue(d.tipo) = "CRÉDITO PARCELADO"
    /\ d.parcelas # Nil
    /\ Get(d.parcelas) > 0

\* the condition under which marking the row paid takes one parcela off
PagaParcela(d, form) ==
    /\ Get(form.paga)
    /\ ~d.paga
    /\ TipoValue(d.tipo) = "CRÉDITO PARCELADO"
    /\ d.parcelas # Nil
    /\ Get(d.parcelas) > 0

\* an ApplyPaga that gives the parcela back when a paid row is marked unpaid
ApplyPaga_restaura(d, form) ==
    IF form.paga # Nil
    THEN [d EXCEPT !.parcelas =
                       IF PagaParcela(d, form) THEN Some(Get(@) - 1)
                       ELSE IF ~Get(form.paga) /\ d.paga /\ @ # Nil THEN Some(Get(@) + 1)
                       ELSE @,
                   !.paga = Get(form.paga)]
    ELSE d

\* form.paga: one parcela less when PagaParcela, then the flag is stored
ApplyPaga(d, form) ==
    IF form.paga # Nil
    THEN [d EXCEPT !.parcelas = IF PagaParcela(d, form) THEN Some(Get(@) - 1) ELSE @,
                   !.paga = Get(form.paga)]
    ELSE d

\* the row after the assignments of update_despesa, in the code's order
UpdateRow(d, form) ==
    ApplyPaga(ApplyParcelas(ApplyCampos(ApplyTipo(d, form), form), form), form)

\* ------------------------------------------------------------ the requests

\* what a commit or a query of the store may do
Outcomes == {"ok", "IntegrityError", "Exception"}

\* a request arrives
Receive ==
    /\ request = NoRequest
    /\ openSessions < MaxSessions
    /\ request' \in Requests
    /\ UNCHANGED <<despesas, nextId, issued, openSessions, response, antes>>

\* the client takes the answer
Reply ==
    /\ response # NoResponse
    /\ request' = NoRequest
    /\ response' = NoResponse
    /\ antes' = Nil
    /\ UNCHANGED <<despesas, nextId, issued, openSessions>>

\* the schema of the route of the request in flight
Validated ==
    CASE request.op = "post" -> DespesaSchema(request.form)
      [] request.op = "put" -> DespesaAtualizaSchema(request.form)
      [] request.op \in {"get", "delete"} -> DespesaBuscaSchema(request.form)
      [] OTHER -> Ok(request.form)

Pending(op) == request.op = op /\ response = NoResponse

\* a form the route's schema refuses: the handler does not run
Reject ==
    /\ request # NoRequest /\ response = NoResponse
    /\ ~Validated.ok
    /\ response' = Response("invalid", Nil)
    /\ UNCHANGED <<despesas, nextId, issued, openSessions, request, antes>>

\* session = Session(): the handler opens a Session, and no handler closes,
\* rolls back or removes the one it opened
OpenSession == openSessions' = openSessions + 1

\* add_despesa: the row is added and committed and answered with its id; an
\* IntegrityError answers 409, any other exception 400
add_despesa(outcome) ==
    /\ Pending("post") /\ Validated.ok
    /\ nextId <= MaxId
    /\ OpenSession
    /\ UNCHANGED <<request, antes>>
    /\ IF outcome = "ok"
       THEN /\ despesas' = Put(NewDespesa(NewId, Validated.v))
            /\ nextId' = nextId + 1
            /\ issued' = issued \cup {NewId}
            /\ response' = Response("200", Some(NewId))
       ELSE /\ response' = Response(IF outcome = "IntegrityError" THEN "409" ELSE "400", Nil)
            /\ UNCHANGED <<despesas, nextId, issued>>

\* get_despesas: every row, or 500 when the query raises
get_despesas(outcome) ==
    /\ Pending("list")
    /\ outcome \in {"ok", "Exception"}
    /\ OpenSession
    /\ response' = Response(IF outcome = "ok" THEN "200" ELSE "500", Nil)
    /\ UNCHANGED <<despesas, nextId, issued, request, antes>>

\* get_despesa: the row of the id, 404 without one, 500 when the query raises
get_despesa(outcome) ==
    /\ Pending("get") /\ Validated.ok
    /\ outcome \in {"ok", "Exception"}
    /\ OpenSession
    /\ response' = IF outcome # "ok" THEN Response("500", Nil)
                   ELSE IF Found(Get(request.form.id)) THEN Response("200", request.form.id)
                   ELSE Response("404", Nil)
    /\ UNCHANGED <<despesas, nextId, issued, request, antes>>

\* update_despesa: 404 without the row; else the row is changed by the form
\* and committed; an exception answers 400 and nothing is stored
update_despesa(outcome) ==
    /\ Pending("put") /\ Validated.ok
    /\ outcome \in {"ok", "Exception"}
    /\ OpenSession
    /\ UNCHANGED <<nextId, issued, request>>
    /\ IF ~Found(Get(request.form.id))
       THEN /\ response' = Response(IF outcome = "ok" THEN "404" ELSE "400", Nil)
            /\ UNCHANGED <<despesas, antes>>
       ELSE /\ antes' = Some(despesas[Get(request.form.id)])
            /\ IF outcome = "ok"
               THEN /\ despesas' = Put(UpdateRow(despesas[Get(request.form.id)], Validated.v))
                    /\ response' = Response("200", request.form.id)
               ELSE /\ response' = Response("400", Nil)
                    /\ UNCHANGED despesas

\* del_despesa: the row is deleted and the delete committed; 200 with the id
\* when a row was deleted, 404 when none was, 500 on an exception
del_despesa(outcome) ==
    /\ Pending("delete") /\ Validated.ok
    /\ outcome \in {"ok", "Exception"}
    /\ OpenSession
    /\ UNCHANGED <<nextId, issued, request, antes>>
    /\ IF outcome # "ok"
       THEN /\ response' = Response("500", Nil)
            /\ UNCHANGED despesas
       ELSE IF Found(Get(request.form.id))
       THEN /\ despesas' = Remove(Get(request.form.id))
            /\ response' = Response("200", request.form.id)
       ELSE /\ response' = Response("404", Nil)
            /\ UNCHANGED despesas

Next ==
    \/ Receive
    \/ Reject
    \/ \E o \in Outcomes : add_despesa(o)
    \/ \E o \in Outcomes : get_despesas(o)
    \/ \E o \in Outcomes : get_despesa(o)
    \/ \E o \in Outcomes : update_despesa(o)
    \/ \E o \in Outcomes : del_despesa(o)
    \/ Reply

Spec == Init /\ [][Next]_vars

\* ------------------------------------------------------------- the claims

\* the request in flight has been answered by route op with this status
Answered(op, status) == request.op = op /\ response.status = status

\* For an update answered 200: the id, the validated command, the row as
\* loaded and the row as stored.
UpId == Get(request.form.id)
UpCmd == DespesaAtualizaSchema(request.form).v
UpBefore == Get(antes)
UpAfter == despesas[UpId]

Parcelado == "CREDITO_PARCELADO"

\* the tipo of the row once the command's tipo is applied
UpTipo == IF UpCmd.tipo # Nil THEN Get(TipoDespesa(Get(UpCmd.tipo))) ELSE UpBefore.tipo

\* parcelas once the command's tipo and the command's own parcelas are
\* applied: cleared by a tipo other than CRÉDITO PARCELADO, else the command's
\* value when it has one and the row is CRÉDITO PARCELADO, else as loaded
UpParcelas ==
    IF UpCmd.tipo # Nil /\ UpTipo # Parcelado THEN Nil
    ELSE IF UpCmd.parcelas # Nil /\ UpTipo = Parcelado THEN UpCmd.parcelas
    ELSE UpBefore.parcelas

\* the four conditions of the decrement
UpPays ==
    /\ UpCmd.paga = Some(TRUE)
    /\ ~UpBefore.paga
    /\ UpTipo = Parcelado
    /\ UpParcelas # Nil /\ Get(UpParcelas) > 0

\* the command carries id and paga and nothing else
OnlyPaga(g) ==
    request.form = [NoForm EXCEPT !.id = request.form.id, !.paga = Some(g)]

\* C1: every stored expense whose tipo is not CRÉDITO PARCELADO has parcelas
\* null, the record as stored by Create included.
C1_NonInstallmentHasNoParcelas ==
    \A i \in DOMAIN despesas :
        despesas[i].tipo # Parcelado => despesas[i].parcelas = Nil

\* C2: an Update that commits takes exactly one off parcelas if and only if
\* the command has paga=true, the stored paga is false, the tipo after the
\* command's tipo is CRÉDITO PARCELADO and parcelas, after the command's own
\* value, is positive; otherwise it takes nothing off; and when paga is
\* supplied the stored paga ends equal to it.
C2_DecrementIff ==
    Answered("put", "200") =>
        /\ UpAfter.parcelas = IF UpPays THEN Some(Get(UpParcelas) - 1) ELSE UpParcelas
        /\ UpCmd.paga # Nil => UpAfter.paga = Get(UpCmd.paga)
        /\ UpCmd.paga = Nil => UpAfter.paga = UpBefore.paga

\* C2 witness: a committed Update that paid a parcela of a row whose parcelas
\* the same command had set.
C2_Witness ==
    /\ Answered("put", "200")
    /\ UpPays
    /\ UpCmd.parcelas # Nil
    /\ UpAfter.parcelas = Some(Get(UpCmd.parcelas) - 1)
    /\ UpAfter.paga

\* C3: an Update with only id and paga=false leaves parcelas as it was and
\* stores paga=false; an Update with only id and paga=true on an unpaid
\* CRÉDITO PARCELADO row takes n > 0 to n-1 and leaves 0 at 0; so a pay and
\* unpay cycle ends at n-1, never restored, and the count stops at 0.
C3_UnpayKeepsCount ==
    /\ Answered("put", "200") /\ OnlyPaga(FALSE) =>
           /\ UpAfter.parcelas = UpBefore.parcelas
           /\ UpAfter.paga = FALSE
    /\ Answered("put", "200") /\ OnlyPaga(TRUE) /\ UpBefore.tipo = Parcelado
         /\ ~UpBefore.paga /\ UpBefore.parcelas # Nil =>
           /\ UpAfter.paga = TRUE
           /\ UpAfter.parcelas =
                  IF Get(UpBefore.parcelas) > 0 THEN Some(Get(UpBefore.parcelas) - 1)
                  ELSE UpBefore.parcelas

\* C3 witness: a paid CRÉDITO PARCELADO row with a count was marked unpaid and
\* kept its count.
C3_Witness ==
    /\ Answered("put", "200") /\ OnlyPaga(FALSE)
    /\ UpBefore.tipo = Parcelado /\ UpBefore.paga
    /\ UpBefore.parcelas = Some(1)
    /\ UpAfter.parcelas = Some(1) /\ ~UpAfter.paga

\* C4: after a committed Update whose command has a tipo other than CRÉDITO
\* PARCELADO the stored parcelas is null, whatever it was and whatever
\* parcelas and paga the command carries.
C4_TypeChangeClearsParcelas ==
    Answered("put", "200") /\ UpCmd.tipo # Nil /\ Get(UpCmd.tipo) # "CRÉDITO PARCELADO" =>
        UpAfter.parcelas = Nil

\* C4 witness: such an Update on a row that had a count, with a count and
\* paga=true in the same command.
C4_Witness ==
    /\ Answered("put", "200")
    /\ UpCmd.tipo = Some("PIX")
    /\ UpCmd.parcelas # Nil /\ UpCmd.paga = Some(TRUE)
    /\ UpBefore.parcelas # Nil /\ UpBefore.tipo = Parcelado
    /\ UpAfter.parcelas = Nil /\ UpAfter.tipo = "PIX"

\* C5: every stored parcelas is null or greater than 0.
C5_ParcelasNullOrPositive ==
    \A i \in DOMAIN despesas :
        despesas[i].parcelas = Nil \/ Get(despesas[i].parcelas) > 0

\* a handler ran for the request in flight and answered it
Handled == response.status \notin {"none", "invalid"}

\* C6: a create or update command reaches its handler only with parcelas
\* absent or a positive integer: whatever the raw form of the field,
\* validate_parcelas gives absent, a positive integer or a validation error.
C6_ValidatedParcelasPositive ==
    request.op \in {"post", "put"} /\ Handled =>
        /\ validate_parcelas(request.form.parcelas).ok
        /\ \/ validate_parcelas(request.form.parcelas).v = Nil
           \/ Get(validate_parcelas(request.form.parcelas).v) > 0

\* C7: the id a Create answers with was never answered by an earlier Create,
\* whether that expense is still stored or was deleted since, and it is the
\* id of the row the Create stored.
C7_FreshId ==
    [][Pending("post") /\ response'.status = "200" =>
           /\ Get(response'.id) \notin issued
           /\ Get(response'.id) \notin DOMAIN despesas
           /\ Get(response'.id) \in DOMAIN despesas'
           /\ despesas'[Get(response'.id)].id = Get(response'.id)]_vars

\* C7 witness: a Create answered after the expense created just before it was
\* deleted, with an id other than that one.
C7_Witness ==
    /\ Answered("post", "200")
    /\ \E i \in issued :
           /\ i \notin DOMAIN despesas
           /\ i + 1 = Get(response.id)
    /\ Get(response.id) \in DOMAIN despesas

\* C8: once a handler has answered, no Session it or an earlier request
\* opened is still open.
C8_NoOpenSessionAfterReturn ==
    response # NoResponse => openSessions = 0

\* C9: an Update whose command carries only id is not answered 200.
C9_IdOnlyUpdateRejected ==
    /\ request.op = "put"
    /\ request.form = [NoForm EXCEPT !.id = request.form.id]
    /\ response # NoResponse
    => response.status # "200"

\* the request in flight is a create or update carrying a valor <= 0 or a
\* dia_vencimento outside 1..31
BadValorDia ==
    /\ request.op \in {"post", "put"}
    /\ \/ request.form.valor # Nil /\ Get(request.form.valor) <= 0
       \/ /\ request.form.dia_vencimento # Nil
          /\ \/ Get(request.form.dia_vencimento) < 1
             \/ Get(request.form.dia_vencimento) > 31

C11_Delete ==
    [][/\ Pending("delete") /\ response'.status \notin {"none", "invalid", "500"} =>
              IF Get(request.form.id) \in DOMAIN despesas
              THEN /\ response' = Response("200", request.form.id)
                   /\ DOMAIN despesas' = DOMAIN despesas \ {Get(request.form.id)}
                   /\ \A j \in DOMAIN despesas' : despesas'[j] = despesas[j]
              ELSE /\ response'.status = "404"
                   /\ despesas' = despesas
       /\ \A i \in Ids :
              i \notin DOMAIN despesas /\ request.op # "post" => i \notin DOMAIN despesas']_vars

\* C11 witness: a Delete of an id that was created and has since been
\* deleted answers 404.
C11_Witness ==
    /\ Answered("delete", "404")
    /\ Get(request.form.id) \in issued
    /\ Get(request.form.id) \notin DOMAIN despesas

\* the command's parcelas is to be written: its tipo is CRÉDITO PARCELADO, or
\* it has no tipo and the stored tipo is CRÉDITO PARCELADO
UpWrites ==
    \/ UpCmd.tipo = Some("CRÉDITO PARCELADO")
    \/ UpCmd.tipo = Nil /\ UpBefore.tipo = Parcelado

\* C12: a committed Update whose command supplies parcelas stores it (less the
\* parcela a paga=true in the same command pays) when UpWrites; in every other
\* case the supplied value is ignored: the stored parcelas is null when the
\* command has another tipo, and as it was when the command has no tipo.
C12_ParcelasWrittenOnlyForParcelado ==
    Answered("put", "200") /\ UpCmd.parcelas # Nil =>
        IF UpWrites
        THEN /\ UpCmd.paga # Some(TRUE) => UpAfter.parcelas = UpCmd.parcelas
             /\ UpAfter.parcelas \in {UpCmd.parcelas, Some(Get(UpCmd.parcelas) - 1)}
        ELSE UpAfter.parcelas = IF UpCmd.tipo # Nil THEN Nil ELSE UpBefore.parcelas

\* C12 witness: a command with parcelas and no tipo on a stored PIX expense
\* without a count was answered 200 and the count is still null.
C12_Witness ==
    /\ Answered("put", "200")
    /\ UpCmd.parcelas = Some(2) /\ UpCmd.tipo = Nil
    /\ UpBefore.tipo = "PIX" /\ UpBefore.parcelas = Nil
    /\ UpAfter.parcelas = Nil

====
